---- MODULE Spec2Model ----
(***************************************************************************)
(* Model of the AudioPlayer component (src/components/AudioPlayer.tsx):    *)
(* a React component that plays one decoded AudioBuffer through a Web      *)
(* Audio AudioContext with one-shot AudioBufferSourceNodes.                *)
(*                                                                         *)
(* Numbers of the source are JavaScript doubles; they are modelled as      *)
(* exact rationals <<numerator, denominator>> in seconds, so rounding      *)
(* error of the floating-point unit is abstracted away and every           *)
(* difference the model shows is a difference of the arithmetic itself.    *)
(*                                                                         *)
(* React state is modelled with its two faces: the state cell (isPlaying)  *)
(* and the value captured by the closures of the committed render          *)
(* (rIsPlaying).  Updates made inside a React event handler are flushed    *)
(* synchronously at the end of the handler; updates made from a promise    *)
(* continuation or a Web Audio callback are committed by a later Render.   *)
(***************************************************************************)
EXTENDS Integers, Sequences, FiniteSets, TLC

VARIABLES
  ticks,          \* device clock of the AudioContext, in TickStep units
  ctxState,       \* audioContextRef.current.state
  isPlaying,      \* useState isPlaying (state cell)
  rIsPlaying,     \* isPlaying as captured by the committed render
  playbackSpeed,  \* useState playbackSpeed
  progress,       \* useState progress
  sourceNodeRef,  \* sourceNodeRef.current: 0 is null, else a node id
  startTimeRef,   \* startTimeRef.current
  pauseTimeRef,   \* pauseTimeRef.current
  nodes,          \* the AudioBufferSourceNodes created so far
  created,        \* number of nodes created
  pendingPlays,   \* playAudio calls suspended at `await resume()`
  pendingEnded,   \* nodes whose `ended` event is queued, not yet delivered
  last,           \* the handler that ran in the last step (observation only)
  audioBuffer,    \* App state audioBuffer: 0 is null, else its length in frames
  player,         \* the AudioPlayer instance: "none", "mounted", "unmounted"
  pendingSince,   \* per waiting playAudio call: the last command issued after
                  \* it ("none" if there is none); observation only
  status,         \* App state status (AppStatus)
  file,           \* App state file: 0 is null, else the document it holds
  translatedText, \* App state translatedText: 0 is '', else the document it renders
  summary,        \* App state summary and actionItems (set together): as translatedText
  errorMsg,       \* App state errorMsg
  history,        \* App state history: sequence of HistoryItems
  stored,         \* localStorage 'docuvoice_history'
  currentHistoryId, \* App state currentHistoryId: 0 is null
  tasks,          \* the async handlers in flight, each with what its closure holds
  nextId,         \* Date.now() as the next id
  edits           \* number of history edits made

\* The App state the player does not see.
appVars == <<status, file, translatedText, summary, errorMsg, history, stored,
             currentHistoryId, tasks, nextId, edits>>

vars == <<ticks, ctxState, isPlaying, rIsPlaying, playbackSpeed, progress,
          sourceNodeRef, startTimeRef, pauseTimeRef, nodes, created,
          pendingPlays, pendingEnded, last, audioBuffer, player, pendingSince,
          status, file, translatedText, summary, errorMsg, history, stored,
          currentHistoryId, tasks, nextId, edits>>

----------------------------------------------------------------------------
(* Bounds of the model *)

MaxTicks == 5
MaxNodes == 2

----------------------------------------------------------------------------
(* Exact rational arithmetic standing for the doubles of the source *)

RECURSIVE GCD(_, _)
GCD(a, b) == IF b = 0 THEN a ELSE GCD(b, a % b)

Abs(n) == IF n < 0 THEN -n ELSE n

Norm(n, d) ==
  LET g == GCD(Abs(n), Abs(d))
      s == IF d < 0 THEN -1 ELSE 1
  IN  <<(s * n) \div g, (s * d) \div g>>

Zero == <<0, 1>>
RAdd(a, b) == Norm(a[1] * b[2] + b[1] * a[2], a[2] * b[2])
RSub(a, b) == Norm(a[1] * b[2] - b[1] * a[2], a[2] * b[2])
RMul(a, b) == Norm(a[1] * b[1], a[2] * b[2])
RDiv(a, b) == Norm(a[1] * b[2], a[2] * b[1])
RGeq(a, b) == a[1] * b[2] >= b[1] * a[2]
RLess(a, b) == ~RGeq(a, b)

\* JavaScript `a % b` on numbers: the remainder has the sign of the dividend.
TruncDiv(n, d) == IF n >= 0 THEN n \div d ELSE -((-n) \div d)
RMod(a, b) ==
  LET q == TruncDiv(a[1] * b[2], a[2] * b[1])
  IN  RSub(a, RMul(<<q, 1>>, b))

----------------------------------------------------------------------------
(* Inputs and constants of the program *)

TickStep == <<1, 10>>                \* granularity of the device clock, s
Duration == <<2, 5>>                \* audioBuffer.duration, s
Epsilon == <<1, 10>>                 \* the 0.1 of the onended check
PLAYBACK_SPEEDS == {<<1, 1>>, <<2, 1>>}
InitialSpeed == <<1, 1>>             \* useState(1.0)
SampleRate == 24000                  \* decodeAudioData's sampleRate

\* The base64 strings generateSpeech may hand back: chars is the number of
\* base64 characters, pad the number of '=' among them, ws the number of
\* white-space characters (atob skips them).  The last one is 19200 bytes of
\* PCM: 9600 frames, the 0.4 s buffer of Duration.
Base64Inputs ==
  { [chars |-> 0, pad |-> 0, ws |-> 0],
    [chars |-> 0, pad |-> 0, ws |-> 1],
    [chars |-> 4, pad |-> 2, ws |-> 0],
    [chars |-> 4, pad |-> 0, ws |-> 0],
    [chars |-> 25600, pad |-> 0, ws |-> 0] }

currentTime == RMul(<<ticks, 1>>, TickStep)

NodeIds == 1..MaxNodes
NoNode == [st |-> "none", pos |-> Zero, rate |-> Zero, cb |-> Zero]
DoneNode == [st |-> "done", pos |-> Zero, rate |-> Zero, cb |-> Zero]

Live(n) == nodes[n].st = "live"
LiveNodes == {n \in NodeIds : Live(n)}

----------------------------------------------------------------------------
(* The Web Audio side: what a source node does *)

\* AudioBufferSourceNode.stop(): a playing node stops and its `ended` event
\* is queued; on a node that already stopped or ended it has no effect.
NodeStop(ns, n) ==
  IF ns[n].st = "live" THEN [ns EXCEPT ![n].st = "stopped"] ELSE ns

EndedAfterStop(n) ==
  IF nodes[n].st = "live" THEN pendingEnded \cup {n} ELSE pendingEnded

RMin(a, b) == IF RGeq(a, b) THEN b ELSE a

\* One quantum of rendering: a playing node advances by rate * TickStep and
\* ends when it has rendered the whole buffer.  For a stopped node whose
\* `ended` event is still queued, pos goes on as the position playback would
\* have reached had it not been stopped (it is what the time-based test of
\* the handler estimates); it renders nothing.
Advance(nd) ==
  LET p == RAdd(nd.pos, RMul(nd.rate, TickStep))
  IN  CASE nd.st = "live" ->
             IF RGeq(p, Duration)
               THEN [nd EXCEPT !.pos = Duration, !.rate = Zero, !.st = "ended"]
               ELSE [nd EXCEPT !.pos = p]
        [] nd.st = "stopped" -> [nd EXCEPT !.pos = RMin(p, Duration)]
        [] OTHER -> nd

----------------------------------------------------------------------------
(* Loading: generateSpeech, decodeAudioData and the App state *)

\* decode: atob and the copy into a Uint8Array; the number of bytes.
decode(b64) == (b64.chars \div 4) * 3 - b64.pad

\* A decoder that hands back an empty buffer for empty input.
decodeAudioDataLenient(b64) ==
  LET bytes == decode(b64)
  IN  IF bytes % 2 # 0
        THEN [err |-> "RangeError", length |-> 0]
        ELSE [err |-> "none", length |-> bytes \div 2]

\* decodeAudioData: new Int16Array(bytes.buffer) throws a RangeError on an odd
\* byte length; ctx.createBuffer throws a NotSupportedError on a length
\* below one frame.
decodeAudioData(b64) ==
  LET bytes == decode(b64)
      frameCount == bytes \div 2
  IN  IF bytes % 2 # 0
        THEN [err |-> "RangeError", length |-> 0]
        ELSE IF frameCount < 1
               THEN [err |-> "NotSupportedError", length |-> 0]
               ELSE [err |-> "none", length |-> frameCount]

\* generateSpeech followed by decodeAudioData, as handleProcess and
\* generateAudioOnly chain them: an empty string is refused first, by an error
\* that generateSpeech's own catch replaces.
LoadResult(b64) ==
  IF b64.chars + b64.ws = 0
    THEN [err |-> "Failed to generate speech.", length |-> 0]
    ELSE decodeAudioData(b64)

\* buffer.duration
BufferDuration(length) == Norm(length, SampleRate)

----------------------------------------------------------------------------
(* The component *)

\* What a command does to the observation of the waiting playAudio calls.
Mark(cmd) == [i \in DOMAIN pendingSince |-> cmd]

Init ==
  /\ audioBuffer = 0
  /\ player = "none"
  /\ pendingSince = <<>>
  /\ status = "IDLE"
  /\ file = 0
  /\ translatedText = 0
  /\ summary = 0
  /\ errorMsg = ""
  /\ history = <<>>
  /\ stored = <<>>
  /\ currentHistoryId = 0
  /\ tasks = <<>>
  /\ nextId = 1
  /\ edits = 0
  /\ ticks = 0
  /\ ctxState \in {"suspended", "running"}
  /\ isPlaying = FALSE
  /\ rIsPlaying = FALSE
  /\ playbackSpeed = InitialSpeed
  /\ progress = Zero
  /\ sourceNodeRef = 0
  /\ startTimeRef = Zero
  /\ pauseTimeRef = Zero
  /\ nodes = [n \in NodeIds |-> NoNode]
  /\ created = 0
  /\ pendingPlays = <<>>
  /\ pendingEnded = {}
  /\ last = "mount"

\* (currentTime - startTimeRef.current) * speed
Elapsed(speed) == RMul(RSub(currentTime, startTimeRef), speed)

\* (now - start) * speed, the elapsed position at device time now
computeElapsed(now, start, speed) == RMul(RSub(now, start), speed)

\* The retained offset used as it is stored.
PlayOffsetRaw == pauseTimeRef

\* pauseTimeRef.current % audioBuffer.duration
PlayOffset == RMod(pauseTimeRef, Duration)

\* A start clock that forgets the speed.
StartClockNoSpeed(offset, speed) == RSub(currentTime, offset)

\* currentTime - offset / playbackSpeed
StartClock(offset, speed) == RSub(currentTime, RDiv(offset, speed))

\* The onended test of the closure that captured `speed`.
EndedCheck(speed) == RGeq(Elapsed(speed), RSub(Duration, Epsilon))

\* playAudio from createBufferSource on, run with the playbackSpeed the
\* call captured.  The state update is committed at once when the body runs
\* inside the click handler (sync) and by a later render otherwise; on an
\* unmounted component React drops it.
PlayBody(speed, sync) ==
  LET id == created + 1
      offset == PlayOffset
  IN  /\ nodes' = [nodes EXCEPT ![id] =
                     [st |-> "live", pos |-> offset, rate |-> speed, cb |-> speed]]
      /\ created' = id
      /\ startTimeRef' = StartClock(offset, speed)
      /\ sourceNodeRef' = id
      /\ isPlaying' = (player = "mounted")
      /\ rIsPlaying' = IF sync THEN isPlaying' ELSE rIsPlaying
      /\ UNCHANGED <<ticks, playbackSpeed, progress, pauseTimeRef, pendingEnded,
                     audioBuffer, player>>
      /\ UNCHANGED appVars

\* playAudio, called on a running context: no await, the node starts in the
\* same task.
PlayAudioNow ==
  /\ ctxState = "running"
  /\ created + Len(pendingPlays) < MaxNodes
  /\ PlayBody(playbackSpeed, TRUE)
  /\ pendingSince' = Mark("play")
  /\ UNCHANGED <<ctxState, pendingPlays>>
  /\ last' = "play"

\* playAudio that does not wait for the resume it requested.
PlayAudioNoAwait ==
  /\ ctxState = "suspended"
  /\ created + Len(pendingPlays) < MaxNodes
  /\ PlayBody(playbackSpeed, TRUE)
  /\ pendingSince' = Mark("play")
  /\ UNCHANGED <<ctxState, pendingPlays>>
  /\ last' = "play"

\* playAudio, called on a suspended context: resume() is requested and the
\* call waits, holding the playbackSpeed of its closure.
PlayAudioWait ==
  /\ UNCHANGED appVars
  /\ ctxState = "suspended"
  /\ created + Len(pendingPlays) < MaxNodes
  /\ pendingPlays' = Append(pendingPlays, playbackSpeed)
  /\ pendingSince' = Append(Mark("play"), "none")
  /\ last' = "playWait"
  /\ UNCHANGED <<ticks, ctxState, isPlaying, rIsPlaying, playbackSpeed, progress,
                 sourceNodeRef, startTimeRef, pauseTimeRef, nodes, created,
                 pendingEnded, audioBuffer, player>>

\* The resume() promise of the oldest waiting playAudio call resolves and
\* the call continues.  flushed: React commits the state update at once
\* (updates outside event handlers are not batched), else a later render does.
PlayAudioResumeWith(flushed) ==
  /\ pendingPlays # <<>>
  /\ ctxState' = "running"
  /\ PlayBody(Head(pendingPlays), flushed)
  /\ pendingPlays' = Tail(pendingPlays)
  /\ pendingSince' = Tail(pendingSince)
  /\ last' = "playResume"

PlayAudioResume == PlayAudioResumeWith(FALSE)
PlayAudioResumeFlushed == PlayAudioResumeWith(TRUE)

\* A failed resume that is taken for a success: the call goes on.
PlayAudioResumeFailIgnored ==
  /\ pendingPlays # <<>>
  /\ ctxState = "suspended"
  /\ PlayBody(Head(pendingPlays), TRUE)
  /\ pendingPlays' = Tail(pendingPlays)
  /\ pendingSince' = Tail(pendingSince)
  /\ last' = "playFail"
  /\ UNCHANGED ctxState

\* The resume() promise of the oldest waiting playAudio call rejects: the
\* await throws, playAudio returns a rejected promise and runs no further.
PlayAudioResumeFail ==
  /\ UNCHANGED appVars
  /\ pendingPlays # <<>>
  /\ ctxState = "suspended"
  /\ pendingPlays' = Tail(pendingPlays)
  /\ pendingSince' = Tail(pendingSince)
  /\ last' = "playFail"
  /\ UNCHANGED <<ticks, ctxState, isPlaying, rIsPlaying, playbackSpeed, progress,
                 sourceNodeRef, startTimeRef, pauseTimeRef, nodes, created,
                 pendingEnded, audioBuffer, player>>

PauseAudio ==
  /\ UNCHANGED appVars
  /\ IF sourceNodeRef = 0
       THEN UNCHANGED <<pauseTimeRef, nodes, sourceNodeRef, isPlaying, rIsPlaying,
                        pendingEnded>>
       ELSE /\ pauseTimeRef' = Elapsed(playbackSpeed)
            /\ nodes' = NodeStop(nodes, sourceNodeRef)
            /\ pendingEnded' = EndedAfterStop(sourceNodeRef)
            /\ sourceNodeRef' = 0
            /\ isPlaying' = FALSE
            /\ rIsPlaying' = FALSE
  /\ last' = "pause"
  /\ pendingSince' = Mark("pause")
  /\ UNCHANGED <<ticks, ctxState, playbackSpeed, progress, startTimeRef, created,
                 pendingPlays, audioBuffer, player>>

\* The play/pause button.
TogglePlay ==
  /\ player = "mounted"
  /\ IF rIsPlaying THEN PauseAudio ELSE (PlayAudioNow \/ PlayAudioWait)

\* resetAudio whose stopAudio lets an error of stop() on a finished node
\* escape: the handler ends there.
ResetAudioThrowing ==
  /\ UNCHANGED appVars
  /\ player = "mounted"
  /\ IF sourceNodeRef # 0 /\ ~Live(sourceNodeRef)
       THEN UNCHANGED <<nodes, pendingEnded, sourceNodeRef, isPlaying, rIsPlaying,
                        pauseTimeRef, progress>>
       ELSE /\ IF sourceNodeRef # 0
                 THEN /\ nodes' = NodeStop(nodes, sourceNodeRef)
                      /\ pendingEnded' = EndedAfterStop(sourceNodeRef)
                      /\ sourceNodeRef' = 0
                 ELSE UNCHANGED <<nodes, pendingEnded, sourceNodeRef>>
            /\ isPlaying' = FALSE
            /\ rIsPlaying' = FALSE
            /\ pauseTimeRef' = Zero
            /\ progress' = Zero
  /\ last' = "reset"
  /\ pendingSince' = Mark("reset")
  /\ UNCHANGED <<ticks, ctxState, playbackSpeed, startTimeRef, created, pendingPlays,
                 audioBuffer, player>>

\* stopAudio followed by the two resets of resetAudio.
ResetAudio ==
  /\ UNCHANGED appVars
  /\ player = "mounted"
  /\ IF sourceNodeRef # 0
       THEN /\ nodes' = NodeStop(nodes, sourceNodeRef)
            /\ pendingEnded' = EndedAfterStop(sourceNodeRef)
            /\ sourceNodeRef' = 0
       ELSE UNCHANGED <<nodes, pendingEnded, sourceNodeRef>>
  /\ isPlaying' = FALSE
  /\ rIsPlaying' = FALSE
  /\ pauseTimeRef' = Zero
  /\ progress' = Zero
  /\ last' = "reset"
  /\ pendingSince' = Mark("reset")
  /\ UNCHANGED <<ticks, ctxState, playbackSpeed, startTimeRef, created, pendingPlays,
                 audioBuffer, player>>

\* The cleanup of the mount effect, run when App stops rendering the player
\* (setAudioBuffer(null)): stopAudio, then suspend() is requested.
Unmount ==
  /\ UNCHANGED appVars
  /\ player = "mounted"
  /\ IF sourceNodeRef # 0
       THEN /\ nodes' = NodeStop(nodes, sourceNodeRef)
            /\ pendingEnded' = EndedAfterStop(sourceNodeRef)
            /\ sourceNodeRef' = 0
       ELSE UNCHANGED <<nodes, pendingEnded, sourceNodeRef>>
  /\ isPlaying' = FALSE
  /\ rIsPlaying' = FALSE
  /\ player' = "unmounted"
  /\ audioBuffer' = 0
  /\ pendingSince' = Mark("unload")
  /\ last' = "unmount"
  /\ UNCHANGED <<ticks, ctxState, playbackSpeed, progress, startTimeRef,
                 pauseTimeRef, created, pendingPlays>>

\* The suspend() requested by the cleanup takes effect, after the resume
\* requests that were made before it.
SuspendDone ==
  /\ UNCHANGED appVars
  /\ player = "unmounted"
  /\ ctxState = "running"
  /\ pendingPlays = <<>>
  /\ ctxState' = "suspended"
  /\ last' = "suspended"
  /\ UNCHANGED <<ticks, isPlaying, rIsPlaying, playbackSpeed, progress,
                 sourceNodeRef, startTimeRef, pauseTimeRef, nodes, created,
                 pendingPlays, pendingEnded, audioBuffer, player, pendingSince>>

\* handleProcess / generateAudioOnly from generateSpeech on: a decoded buffer
\* becomes the App's audioBuffer and the player is mounted with it; any
\* failure leaves audioBuffer null.
LoadAudio(b64) ==
  /\ UNCHANGED appVars
  /\ player = "none"
  /\ LET r == LoadResult(b64)
     IN  IF r.err = "none"
           THEN /\ audioBuffer' = r.length
                /\ player' = "mounted"
                /\ last' = "load"
           ELSE /\ UNCHANGED <<audioBuffer, player>>
                /\ last' = "loadFailed"
  /\ UNCHANGED <<ticks, ctxState, isPlaying, rIsPlaying, playbackSpeed, progress,
                 sourceNodeRef, startTimeRef, pauseTimeRef, nodes, created,
                 pendingPlays, pendingEnded, pendingSince>>

\* A speed change that also forgets the retained offset.
HandleSpeedChangeRestart(newSpeed) ==
  /\ UNCHANGED appVars
  /\ player = "mounted"
  /\ playbackSpeed' = newSpeed
  /\ nodes' = IF rIsPlaying /\ sourceNodeRef # 0 /\ Live(sourceNodeRef)
                THEN [nodes EXCEPT ![sourceNodeRef].rate = newSpeed]
                ELSE nodes
  /\ pauseTimeRef' = Zero
  /\ last' = "speed"
  /\ UNCHANGED <<ticks, ctxState, isPlaying, rIsPlaying, progress, sourceNodeRef,
                 startTimeRef, created, pendingPlays, pendingEnded, audioBuffer,
                 player, pendingSince>>

\* handleSpeedChange: the select always stores the new speed; the live node
\* gets it only if the rendered isPlaying is true.
HandleSpeedChange(newSpeed) ==
  /\ UNCHANGED appVars
  /\ player = "mounted"
  /\ playbackSpeed' = newSpeed
  /\ nodes' = IF rIsPlaying /\ sourceNodeRef # 0 /\ Live(sourceNodeRef)
                THEN [nodes EXCEPT ![sourceNodeRef].rate = newSpeed]
                ELSE nodes
  /\ last' = "speed"
  /\ UNCHANGED <<ticks, ctxState, isPlaying, rIsPlaying, progress, sourceNodeRef, startTimeRef,
                 pauseTimeRef, created, pendingPlays, pendingEnded, audioBuffer,
                 player, pendingSince>>

\* source.onended of node n, with the playbackSpeed its closure captured.
OnEndedWith(n, flushed) ==
  /\ UNCHANGED appVars
  /\ n \in pendingEnded
  /\ pendingEnded' = pendingEnded \ {n}
  /\ IF EndedCheck(nodes[n].cb)
       THEN /\ isPlaying' = FALSE
            /\ pauseTimeRef' = Zero
            /\ progress' = Zero
       ELSE UNCHANGED <<isPlaying, pauseTimeRef, progress>>
  /\ rIsPlaying' = IF flushed THEN isPlaying' ELSE rIsPlaying
  /\ last' = "ended"
  /\ nodes' = [nodes EXCEPT ![n] = DoneNode]
  /\ UNCHANGED <<ticks, ctxState, playbackSpeed, sourceNodeRef, startTimeRef,
                 created, pendingPlays, audioBuffer, player, pendingSince>>

OnEnded(n) == OnEndedWith(n, FALSE)
OnEndedFlushed(n) == OnEndedWith(n, TRUE)

\* React commits a state update that was made outside an event handler.
Render ==
  /\ UNCHANGED appVars
  /\ rIsPlaying # isPlaying
  /\ rIsPlaying' = isPlaying
  /\ last' = "render"
  /\ UNCHANGED <<ticks, ctxState, isPlaying, playbackSpeed, progress, sourceNodeRef,
                 startTimeRef, pauseTimeRef, nodes, created, pendingPlays,
                 pendingEnded, audioBuffer, player, pendingSince>>

\* The device clock advances by one step while the context runs.
Tick ==
  /\ UNCHANGED appVars
  /\ player # "none"
  /\ ctxState = "running"
  /\ ticks < MaxTicks
  /\ ticks' = ticks + 1
  /\ nodes' = [n \in NodeIds |-> Advance(nodes[n])]
  /\ pendingEnded' = pendingEnded \cup
       {n \in NodeIds : nodes[n].st = "live" /\ Advance(nodes[n]).st = "ended"}
  /\ last' = "tick"
  /\ UNCHANGED <<ctxState, isPlaying, rIsPlaying, playbackSpeed, progress,
                 sourceNodeRef, startTimeRef, pauseTimeRef, created, pendingPlays,
                 audioBuffer, player, pendingSince>>

Next ==
  \/ \E b64 \in Base64Inputs : LoadAudio(b64)
  \/ Unmount
  \/ SuspendDone
  \/ TogglePlay
  \/ PlayAudioResume
  \/ PlayAudioResumeFail
  \/ ResetAudio
  \/ \E v \in PLAYBACK_SPEEDS : HandleSpeedChange(v)
  \/ \E n \in NodeIds : OnEnded(n)
  \/ Render
  \/ Tick

Spec == Init /\ [][Next]_vars

\* The same component under a React root that renders every state update
\* synchronously: no handler ever runs against a stale render.
NextFlushed ==
  \/ \E b64 \in Base64Inputs : LoadAudio(b64)
  \/ Unmount
  \/ SuspendDone
  \/ TogglePlay
  \/ PlayAudioResumeFlushed
  \/ PlayAudioResumeFail
  \/ ResetAudio
  \/ \E v \in PLAYBACK_SPEEDS : HandleSpeedChange(v)
  \/ \E n \in NodeIds : OnEndedFlushed(n)
  \/ Tick

SpecFlushed == Init /\ [][NextFlushed]_vars

\* The change handler reached by a change event whose value is not one of the
\* options the select renders (a dispatched event): handleSpeedChange takes
\* whatever parseFloat returns.
UnsupportedSpeeds == {<<73, 10>>}

NextAnyEvent ==
  \/ NextFlushed
  \/ \E v \in UnsupportedSpeeds : HandleSpeedChange(v)

SpecAnyEvent == Init /\ [][NextAnyEvent]_vars

TypeOK ==
  /\ ticks \in 0..MaxTicks
  /\ created \in 0..MaxNodes
  /\ sourceNodeRef \in 0..MaxNodes
  /\ isPlaying \in BOOLEAN
  /\ playbackSpeed \in PLAYBACK_SPEEDS
  /\ player \in {"none", "mounted", "unmounted"}
  /\ player = "mounted" <=> audioBuffer # 0
  /\ audioBuffer # 0 => BufferDuration(audioBuffer) = Duration
  /\ Len(pendingSince) = Len(pendingPlays)

----------------------------------------------------------------------------
(* The App component (src/App.tsx): documents, history and the async        *)
(* handlers.  Spec and SpecFlushed follow the player and hold this state    *)
(* fixed; SpecApp follows this state and holds the inside of the player     *)
(* fixed.  An async handler is a task: each await is a step of its own, run  *)
(* with the values its closure captured when the handler was called.        *)

MaxTasks == 1      \* async handlers in flight
MaxSaves == 1      \* translations started
MaxEdits == 1      \* history edits (deletions, highlights added)

HistoryLimit == 20
MaxFileSize == 10 * 1024 * 1024
FileSizes == {MaxFileSize - 1, MaxFileSize, MaxFileSize + 1}
Docs == {1}

TooLargeMsg == "File is too large. Please select a file under 10MB."
AudioFailedMsg == "Failed to generate audio."
RemoteFailedMsg == "Failed to translate document."

playerVars == <<ticks, ctxState, isPlaying, rIsPlaying, playbackSpeed, progress,
                sourceNodeRef, startTimeRef, pauseTimeRef, nodes, created,
                pendingPlays, pendingEnded, player, pendingSince>>

\* The items a previous session left in localStorage, most recent first.
OldItem(k) == [id |-> 100 + k, doc |-> 3, highlights |-> {}]
StoredHistories == { [k \in 1..n |-> OldItem(k)] : n \in {0, HistoryLimit} }

\* array.slice(0, n)
Take(seq, n) == SubSeq(seq, 1, IF Len(seq) < n THEN Len(seq) ELSE n)

\* saveHistory: [newItem, ...history].slice(0, 20), with the history of the
\* render that created the closure.
Saved(hist, newItem) == Take(<<newItem>> \o hist, HistoryLimit)

\* updateHistoryItem: history.map(...)
Updated(hist, item) ==
  [k \in DOMAIN hist |-> IF hist[k].id = item.id THEN item ELSE hist[k]]

\* deleteHistoryItem: history.filter(h => h.id !== id)
Without(hist, id) ==
  LET Keep(h) == h.id # id IN SelectSeq(hist, Keep)

HistoryIds(hist) == {hist[k].id : k \in DOMAIN hist}

\* history.find(h => h.id === currentHistoryId)
CurrentItem == history[CHOOSE k \in DOMAIN history : history[k].id = currentHistoryId]

RemoveTask(i) ==
  [k \in 1..(Len(tasks) - 1) |-> IF k < i THEN tasks[k] ELSE tasks[k + 1]]

NewTask(kind, pc, doc, hist) ==
  [kind |-> kind, pc |-> pc, doc |-> doc, hist |-> hist, stale |-> FALSE]

\* Observation: the tasks in flight were started before the content shown
\* was replaced.
MarkStale == [k \in DOMAIN tasks |-> [tasks[k] EXCEPT !.stale = TRUE]]

ProcessTasks == {k \in DOMAIN tasks : tasks[k].kind = "process"}

InitApp ==
  /\ ticks = 0
  /\ ctxState = "suspended"
  /\ isPlaying = FALSE
  /\ rIsPlaying = FALSE
  /\ playbackSpeed = InitialSpeed
  /\ progress = Zero
  /\ sourceNodeRef = 0
  /\ startTimeRef = Zero
  /\ pauseTimeRef = Zero
  /\ nodes = [n \in NodeIds |-> NoNode]
  /\ created = 0
  /\ pendingPlays = <<>>
  /\ pendingEnded = {}
  /\ last = "mount"
  /\ audioBuffer = 0
  /\ player = "none"
  /\ pendingSince = <<>>
  /\ status = "IDLE"
  /\ file = 0
  /\ translatedText = 0
  /\ summary = 0
  /\ errorMsg = ""
  /\ stored \in StoredHistories
  /\ history = stored
  /\ currentHistoryId = 0
  /\ tasks = <<>>
  /\ nextId = 1
  /\ edits = 0

\* handleFileChange with the 10 MB test off by one.
HandleFileChangeStrict(doc, size) ==
  /\ UNCHANGED playerVars
  /\ IF size >= MaxFileSize
       THEN /\ errorMsg' = TooLargeMsg
            /\ last' = "fileRejected"
            /\ UNCHANGED <<status, file, translatedText, summary, history, stored,
                           currentHistoryId, tasks, nextId, edits, audioBuffer>>
       ELSE /\ Len(tasks) < MaxTasks
            /\ errorMsg' = ""
            /\ status' = "IDLE"
            /\ audioBuffer' = 0
            /\ translatedText' = 0
            /\ summary' = 0
            /\ file' = 0
            /\ currentHistoryId' = 0
            /\ tasks' = Append(tasks, NewTask("read", "read", doc, <<>>))
            /\ last' = "fileAccepted"
            /\ UNCHANGED <<history, stored, nextId, edits>>

\* handleFileChange up to the await of the file read (a PDF: no compression).
HandleFileChange(doc, size) ==
  /\ UNCHANGED playerVars
  /\ IF size > MaxFileSize
       THEN /\ errorMsg' = TooLargeMsg
            /\ last' = "fileRejected"
            /\ UNCHANGED <<status, file, translatedText, summary, history, stored,
                           currentHistoryId, tasks, nextId, edits, audioBuffer>>
       ELSE /\ Len(tasks) < MaxTasks
            /\ errorMsg' = ""
            /\ status' = "IDLE"
            /\ audioBuffer' = 0
            /\ translatedText' = 0
            /\ summary' = 0
            /\ file' = 0
            /\ currentHistoryId' = 0
            /\ tasks' = Append(tasks, NewTask("read", "read", doc, <<>>))
            /\ last' = "fileAccepted"
            /\ UNCHANGED <<history, stored, nextId, edits>>

\* handleFileChange after the read: setFile.
ReadDone(i) ==
  /\ UNCHANGED playerVars
  /\ i \in DOMAIN tasks
  /\ tasks[i].kind = "read"
  /\ file' = tasks[i].doc
  /\ tasks' = RemoveTask(i)
  /\ last' = "fileRead"
  /\ UNCHANGED <<status, translatedText, summary, errorMsg, history, stored,
                 currentHistoryId, nextId, edits, audioBuffer>>

\* handleProcess up to the await of translateDocument.
HandleProcess ==
  /\ UNCHANGED playerVars
  /\ file # 0
  /\ status = "IDLE"
  /\ Len(tasks) < MaxTasks
  /\ nextId + Cardinality(ProcessTasks) <= MaxSaves
  /\ errorMsg' = ""
  /\ status' = "TRANSLATING"
  /\ translatedText' = 0
  /\ summary' = 0
  /\ tasks' = Append(tasks, NewTask("process", "translate", file, history))
  /\ last' = "process"
  /\ UNCHANGED <<file, history, stored, currentHistoryId, nextId, edits, audioBuffer>>

\* handleProcess after translateDocument resolved, with or without an address.
TranslateDone(i, address) ==
  /\ UNCHANGED playerVars
  /\ i \in DOMAIN tasks
  /\ tasks[i].kind = "process" /\ tasks[i].pc = "translate"
  /\ translatedText' = tasks[i].doc
  /\ summary' = tasks[i].doc
  /\ IF address
       THEN /\ status' = "RESOLVING_LOCATION"
            /\ tasks' = [tasks EXCEPT ![i].pc = "location"]
       ELSE /\ status' = "GENERATING_AUDIO"
            /\ tasks' = [tasks EXCEPT ![i].pc = "speech"]
  /\ last' = "translated"
  /\ UNCHANGED <<file, errorMsg, history, stored, currentHistoryId, nextId, edits,
                 audioBuffer>>

\* handleProcess after resolveLocation resolved.
LocationDone(i) ==
  /\ UNCHANGED playerVars
  /\ i \in DOMAIN tasks
  /\ tasks[i].kind = "process" /\ tasks[i].pc = "location"
  /\ status' = "GENERATING_AUDIO"
  /\ tasks' = [tasks EXCEPT ![i].pc = "speech"]
  /\ last' = "located"
  /\ UNCHANGED <<file, translatedText, summary, errorMsg, history, stored,
                 currentHistoryId, nextId, edits, audioBuffer>>

\* The catch of handleProcess.
ProcessCaught(i, msg) ==
  /\ status' = "ERROR"
  /\ errorMsg' = msg
  /\ tasks' = RemoveTask(i)
  /\ UNCHANGED <<file, translatedText, summary, history, stored, currentHistoryId,
                 nextId, edits, audioBuffer>>

\* handleProcess that saves the item before the audio is decoded.
SpeechDoneSaveFirst(i, b64) ==
  /\ UNCHANGED playerVars
  /\ i \in DOMAIN tasks
  /\ tasks[i].kind = "process" /\ tasks[i].pc = "speech"
  /\ LET r == LoadResult(b64)
         newItem == [id |-> nextId, doc |-> tasks[i].doc, highlights |-> {}]
     IN  /\ history' = Saved(tasks[i].hist, newItem)
         /\ stored' = history'
         /\ currentHistoryId' = nextId
         /\ nextId' = nextId + 1
         /\ tasks' = RemoveTask(i)
         /\ IF r.err = "none"
              THEN /\ audioBuffer' = r.length
                   /\ status' = "READY"
                   /\ last' = "processed"
                   /\ UNCHANGED errorMsg
              ELSE /\ status' = "ERROR"
                   /\ errorMsg' = r.err
                   /\ last' = "processFailed"
                   /\ UNCHANGED audioBuffer
         /\ UNCHANGED <<file, translatedText, summary, edits>>

\* handleProcess after generateSpeech resolved with b64: decodeAudioData, then
\* setAudioBuffer, setStatus, saveHistory and setCurrentHistoryId; a decode
\* error goes to the catch.
SpeechDone(i, b64) ==
  /\ UNCHANGED playerVars
  /\ i \in DOMAIN tasks
  /\ tasks[i].kind = "process" /\ tasks[i].pc = "speech"
  /\ LET r == LoadResult(b64)
         newItem == [id |-> nextId, doc |-> tasks[i].doc, highlights |-> {}]
     IN  IF r.err = "none"
           THEN /\ audioBuffer' = r.length
                /\ status' = "READY"
                /\ history' = Saved(tasks[i].hist, newItem)
                /\ stored' = history'
                /\ currentHistoryId' = nextId
                /\ nextId' = nextId + 1
                /\ tasks' = RemoveTask(i)
                /\ last' = "processed"
                /\ UNCHANGED <<file, translatedText, summary, errorMsg, edits>>
           ELSE /\ ProcessCaught(i, r.err)
                /\ last' = "processFailed"

\* One of the remote calls of handleProcess rejects.
ProcessFails(i) ==
  /\ UNCHANGED playerVars
  /\ i \in DOMAIN tasks
  /\ tasks[i].kind = "process"
  /\ ProcessCaught(i, RemoteFailedMsg)
  /\ last' = "processFailed"

\* generateAudioOnly up to the await of generateSpeech.
GenerateAudioOnly ==
  /\ UNCHANGED playerVars
  /\ status = "READY"
  /\ audioBuffer = 0
  /\ IF translatedText = 0
       THEN /\ last' = "audioNoText"
            /\ UNCHANGED <<status, tasks>>
       ELSE /\ Len(tasks) < MaxTasks
            /\ status' = "GENERATING_AUDIO"
            /\ tasks' = Append(tasks, NewTask("audio", "speech", translatedText, <<>>))
            /\ last' = "audioOnly"
  /\ UNCHANGED <<file, translatedText, summary, errorMsg, history, stored,
                 currentHistoryId, nextId, edits, audioBuffer>>

\* The catch of generateAudioOnly.
AudioCaught(i) ==
  /\ status' = "READY"
  /\ errorMsg' = AudioFailedMsg
  /\ tasks' = RemoveTask(i)
  /\ last' = "audioFailed"
  /\ UNCHANGED <<file, translatedText, summary, history, stored, currentHistoryId,
                 nextId, edits, audioBuffer>>

\* generateAudioOnly after generateSpeech resolved with b64.
AudioDone(i, b64) ==
  /\ UNCHANGED playerVars
  /\ i \in DOMAIN tasks
  /\ tasks[i].kind = "audio"
  /\ LET r == LoadResult(b64)
     IN  IF r.err = "none"
           THEN /\ audioBuffer' = r.length
                /\ status' = "READY"
                /\ tasks' = RemoveTask(i)
                /\ last' = "audioReady"
                /\ UNCHANGED <<file, translatedText, summary, errorMsg, history,
                               stored, currentHistoryId, nextId, edits>>
           ELSE AudioCaught(i)

\* The remote call of generateAudioOnly rejects, handled as a success.
AudioFailsSilently(i) ==
  /\ UNCHANGED playerVars
  /\ i \in DOMAIN tasks
  /\ tasks[i].kind = "audio"
  /\ status' = "READY"
  /\ audioBuffer' = SampleRate
  /\ tasks' = RemoveTask(i)
  /\ last' = "audioFailed"
  /\ UNCHANGED <<file, translatedText, summary, errorMsg, history, stored,
                 currentHistoryId, nextId, edits>>

\* The remote call of generateAudioOnly rejects.
AudioFails(i) ==
  /\ UNCHANGED playerVars
  /\ i \in DOMAIN tasks
  /\ tasks[i].kind = "audio"
  /\ AudioCaught(i)

\* The positions of the history list the user acts on: the first and the last.
HistoryPositions == {k \in DOMAIN history : k = 1 \/ k = Len(history)}

LoadHistoryItem(k) ==
  /\ UNCHANGED playerVars
  /\ k \in HistoryPositions
  /\ translatedText' = history[k].doc
  /\ summary' = history[k].doc
  /\ file' = history[k].doc
  /\ audioBuffer' = 0
  /\ status' = "READY"
  /\ currentHistoryId' = history[k].id
  /\ tasks' = MarkStale
  /\ last' = "loadHistory"
  /\ UNCHANGED <<errorMsg, history, stored, nextId, edits>>

DeleteHistoryItem(k) ==
  /\ UNCHANGED playerVars
  /\ k \in HistoryPositions
  /\ edits < MaxEdits
  /\ edits' = edits + 1
  /\ history' = Without(history, history[k].id)
  /\ stored' = history'
  /\ IF currentHistoryId = history[k].id
       THEN /\ currentHistoryId' = 0
            /\ status' = "IDLE"
            /\ translatedText' = 0
            /\ summary' = 0
            /\ file' = 0
            /\ audioBuffer' = 0
            /\ tasks' = MarkStale
       ELSE UNCHANGED <<currentHistoryId, status, translatedText, summary, file,
                        audioBuffer, tasks>>
  /\ last' = "deleteHistory"
  /\ UNCHANGED <<errorMsg, nextId>>

\* The start-over button of the READY view.
StartOver ==
  /\ UNCHANGED playerVars
  /\ status = "READY"
  /\ status' = "IDLE"
  /\ translatedText' = 0
  /\ summary' = 0
  /\ audioBuffer' = 0
  /\ file' = 0
  /\ currentHistoryId' = 0
  /\ tasks' = MarkStale
  /\ last' = "startOver"
  /\ UNCHANGED <<errorMsg, history, stored, nextId, edits>>

\* handleSaveHighlight on a selection of the translated text.
HandleSaveHighlight ==
  /\ UNCHANGED playerVars
  /\ status = "READY"
  /\ translatedText # 0
  /\ currentHistoryId \in HistoryIds(history)
  /\ edits < MaxEdits
  /\ edits' = edits + 1
  /\ history' = Updated(history,
        [CurrentItem EXCEPT !.highlights = CurrentItem.highlights \cup {edits + 1}])
  /\ stored' = history'
  /\ last' = "saveHighlight"
  /\ UNCHANGED <<status, file, translatedText, summary, errorMsg, currentHistoryId,
                 tasks, nextId, audioBuffer>>

HandleDeleteHighlight(h) ==
  /\ UNCHANGED playerVars
  /\ status = "READY"
  /\ currentHistoryId \in HistoryIds(history)
  /\ h \in CurrentItem.highlights
  /\ UNCHANGED edits
  /\ history' = Updated(history,
        [CurrentItem EXCEPT !.highlights = CurrentItem.highlights \ {h}])
  /\ stored' = history'
  /\ last' = "deleteHighlight"
  /\ UNCHANGED <<status, file, translatedText, summary, errorMsg, currentHistoryId,
                 tasks, nextId, audioBuffer>>

NextApp ==
  \/ \E d \in Docs, size \in FileSizes : HandleFileChange(d, size)
  \/ \E i \in 1..MaxTasks : ReadDone(i)
  \/ HandleProcess
  \/ \E i \in 1..MaxTasks, address \in BOOLEAN : TranslateDone(i, address)
  \/ \E i \in 1..MaxTasks : LocationDone(i)
  \/ \E i \in 1..MaxTasks, b64 \in Base64Inputs : SpeechDone(i, b64)
  \/ \E i \in 1..MaxTasks : ProcessFails(i)
  \/ GenerateAudioOnly
  \/ \E i \in 1..MaxTasks, b64 \in Base64Inputs : AudioDone(i, b64)
  \/ \E i \in 1..MaxTasks : AudioFails(i)
  \/ \E k \in 1..HistoryLimit : LoadHistoryItem(k)
  \/ \E k \in 1..HistoryLimit : DeleteHistoryItem(k)
  \/ StartOver
  \/ HandleSaveHighlight
  \/ \E h \in 1..MaxEdits : HandleDeleteHighlight(h)

SpecApp == InitApp /\ [][NextApp]_vars

----------------------------------------------------------------------------
(* Claims *)

\* C1: in every reachable state at most one playback node is live (started
\* and neither stopped nor ended), also when two play requests overlap while
\* the device resume is pending.
C1_AtMostOneLiveNode == Cardinality(LiveNodes) <= 1
\* C2: isPlaying is true if and only if a live playback node exists (one that
\* has neither reached the end of the buffer nor been stopped).  The states
\* between the end of a node and the delivery of its `ended` event, and
\* between a state update and its render, are left out: the claim is read at
\* the states where no callback or render is outstanding.
Quiescent == pendingEnded = {} /\ pendingPlays = <<>> /\ rIsPlaying = isPlaying

C2_PlayingIffLiveNode == Quiescent => (isPlaying <=> LiveNodes # {})
\* C3: when the session's node has run to the natural end of the buffer (no
\* pause, reset or new play since it started), the delivery of its `ended`
\* event leaves the engine Stopped: isPlaying false and the retained offset 0,
\* whatever speed changes happened while it played.
NaturalEnd(n) == nodes[n].st = "ended" /\ sourceNodeRef = n

EndedStep(n) == OnEnded(n) \/ OnEndedFlushed(n)

C3_NaturalEndStops ==
  [][\A n \in NodeIds :
       (EndedStep(n) /\ NaturalEnd(n)) =>
          (isPlaying' = FALSE /\ pauseTimeRef' = Zero)]_vars
\* C4: natural completion (the `ended` handler turning isPlaying to false or
\* the retained offset to 0) is never reported while the logical playback
\* position is below duration minus epsilon.  The logical position of a node
\* is its start offset plus its rate integrated over the device time since
\* its start (offset 0 and constant speed S: S times the time since start).
CompletionReported(n) ==
  /\ EndedStep(n)
  /\ EndedCheck(nodes[n].cb)
  /\ <<isPlaying, pauseTimeRef>>' # <<isPlaying, pauseTimeRef>>

C4_NoEarlyCompletion ==
  [][\A n \in NodeIds :
       CompletionReported(n) =>
          RGeq(nodes[n].pos, RSub(Duration, Epsilon))]_vars

\* The session is Playing: the state says so, the render shows it, and the
\* referenced node is live.
Playing ==
  /\ isPlaying
  /\ rIsPlaying
  /\ sourceNodeRef # 0
  /\ Live(sourceNodeRef)

PlayStep == PlayAudioNow \/ PlayAudioResume \/ PlayAudioResumeFlushed

\* C5: pause() while Playing retains, wrapped to the duration, the position
\* the node has reached (its start offset plus rate times device time), and
\* every play() starts its node at the retained offset wrapped to the
\* duration.
C5_PauseRetainsPosition ==
  [][/\ (PauseAudio /\ Playing) =>
          /\ RMod(pauseTimeRef', Duration) = nodes[sourceNodeRef].pos
          /\ nodes'[sourceNodeRef].st # "live"
          /\ ~isPlaying'
     /\ PlayStep => nodes'[created'].pos = RMod(pauseTimeRef, Duration)]_vars

\* C6: setSpeed(v) while Playing keeps the session Playing, gives the live
\* node the rate v at once, and re-bases the start clock: the logical position
\* computed with the new speed right after the change is the position
\* computed with the old speed right before it.
C6_SpeedChangeRebases ==
  [][\A v \in PLAYBACK_SPEEDS :
       (HandleSpeedChange(v) /\ Playing) =>
          /\ isPlaying'
          /\ nodes'[sourceNodeRef].rate = v
          /\ RMul(RSub(currentTime', startTimeRef'), playbackSpeed')
               = Elapsed(playbackSpeed)]_vars

\* C7: setSpeed(v) while Stopped or Paused (isPlaying false, no live node)
\* changes only the stored speed, and a play() then called starts its node at
\* the retained offset with the stored speed as its rate.
NotPlaying == ~isPlaying /\ LiveNodes = {}

C7_SpeedChangeWhileStopped ==
  [][/\ \A v \in PLAYBACK_SPEEDS :
          (HandleSpeedChange(v) /\ NotPlaying) =>
             /\ playbackSpeed' = v
             /\ UNCHANGED <<isPlaying, rIsPlaying, pauseTimeRef, startTimeRef,
                            sourceNodeRef, nodes, created, progress,
                            pendingPlays, pendingEnded>>
     /\ PlayAudioNow =>
          /\ nodes'[created'].rate = playbackSpeed
          /\ nodes'[created'].pos = RMod(pauseTimeRef, Duration)
     /\ PlayAudioWait => pendingPlays'[Len(pendingPlays')] = playbackSpeed
     /\ PlayAudioResume =>
          /\ nodes'[created'].rate = Head(pendingPlays)
          /\ nodes'[created'].pos = RMod(pauseTimeRef, Duration)]_vars

C7_Witness ==
  /\ last = "speed"
  /\ player = "mounted"
  /\ NotPlaying
  /\ sourceNodeRef = 0
  /\ pauseTimeRef # Zero
  /\ playbackSpeed # InitialSpeed

\* C8: reset() in any state leaves isPlaying false, progress 0, the retained
\* offset 0 and no live node.
C8_ResetStops ==
  [][ResetAudio =>
       /\ ~isPlaying'
       /\ progress' = Zero
       /\ pauseTimeRef' = Zero
       /\ LiveNodes' = {}]_vars

\* C9: play() while the session is already Playing is a no-op: isPlaying, the
\* start clock, the node reference and the nodes are unchanged.
C9_PlayWhilePlayingNoOp ==
  [][(PlayStep /\ isPlaying /\ sourceNodeRef # 0 /\ Live(sourceNodeRef)) =>
       UNCHANGED <<isPlaying, startTimeRef, sourceNodeRef, nodes, created>>]_vars

\* C10: pause() when the session is not Playing (Stopped, Paused or after
\* natural completion) is a no-op: isPlaying, the retained offset, the speed
\* and the node reference are unchanged.
C10_PauseWhileNotPlayingNoOp ==
  [][(PauseAudio /\ ~isPlaying) =>
       UNCHANGED <<isPlaying, pauseTimeRef, playbackSpeed, sourceNodeRef>>]_vars

\* C11: when the device is suspended at play() and the resume request fails,
\* the play fails, no node is created and the session stays as it was, with
\* isPlaying false and the retained offset unchanged.
C11_FailedPlayChangesNothing ==
  [][PlayAudioResumeFail =>
       /\ ~isPlaying'
       /\ LiveNodes' = {}
       /\ UNCHANGED <<isPlaying, rIsPlaying, pauseTimeRef, startTimeRef,
                      sourceNodeRef, nodes, created, progress, playbackSpeed>>]_vars

C11_Witness ==
  /\ last = "playFail"
  /\ player = "mounted"
  /\ ctxState = "suspended"
  /\ created = 0

\* The continuation of a waiting playAudio call runs.
ResumeStep == PlayAudioResume \/ PlayAudioResumeFlushed

\* C12: when reset() or unload happened while a play() was waiting for the
\* device resume, the completion of the resume starts no node and leaves
\* isPlaying false.
C12_StalePlayDiscarded ==
  [][(ResumeStep /\ Head(pendingSince) \in {"reset", "unload"}) =>
       (~isPlaying' /\ UNCHANGED <<nodes, created, sourceNodeRef>>)]_vars

\* C13: commands take effect in the order issued: when the last command
\* issued is a pause() that followed a play() still waiting for the resume,
\* then once that play has been processed the session is not Playing and no
\* node is live.
C13_PauseAfterPlayNotDropped ==
  [][(ResumeStep /\ Len(pendingPlays) = 1 /\ Head(pendingSince) = "pause") =>
       (~isPlaying' /\ LiveNodes' = {})]_vars

\* C14: unload from any state stops the live node if there is one and leaves
\* the engine with no buffer, no live node and isPlaying false.
C14_UnloadStops ==
  [][Unmount => (audioBuffer' = 0 /\ ~isPlaying' /\ LiveNodes' = {})]_vars

InRange(x) == RGeq(x, Zero) /\ RLess(x, Duration)

\* C15 (as claimed): with a loaded buffer the retained offset lies in
\* [0, D) in every state, and every node is started at an offset in [0, D).
C15_RetainedOffsetInRange ==
  [][/\ player' = "mounted" => InRange(pauseTimeRef')
     /\ PlayStep => InRange(nodes'[created'].pos)]_vars

\* C15 (amended): the retained offset is never negative and may reach or
\* exceed D; it is reduced modulo D when a node is started, so every node is
\* started at an offset in [0, D).
C15_StartOffsetInRange ==
  [][/\ RGeq(pauseTimeRef', Zero)
     /\ PlayStep => /\ InRange(nodes'[created'].pos)
                    /\ nodes'[created'].pos = RMod(pauseTimeRef, Duration)]_vars

C15_Witness ==
  /\ last = "play"
  /\ created > 0
  /\ Live(created)
  /\ RGeq(pauseTimeRef, Duration)
  /\ nodes[created].pos # Zero

Clamp01(x) == IF RLess(x, Zero) THEN Zero ELSE RMin(x, <<1, 1>>)

\* C16: progress lies in [0, 1] in every state, and while Playing it is the
\* logical position of the node over the duration, clamped to [0, 1].
C16_ProgressTracksPosition ==
  /\ RGeq(progress, Zero) /\ RGeq(<<1, 1>>, progress)
  /\ Playing => progress = Clamp01(RDiv(nodes[sourceNodeRef].pos, Duration))

C20_ResumeBeforeStart ==
  [][/\ created' # created => ctxState' = "running"
     /\ (created' # created /\ ctxState = "suspended") => ResumeStep
     /\ PlayAudioWait =>
          /\ UNCHANGED <<nodes, created, isPlaying, sourceNodeRef>>
          /\ Len(pendingPlays') = Len(pendingPlays) + 1]_vars

C20_Witness ==
  /\ last = "playResume"
  /\ ctxState = "running"
  /\ created > 0
  /\ Live(created)

\* The teardown has taken effect: the player is unmounted, no play is waiting
\* and the requested suspend is done.
TornDown == player = "unmounted" /\ pendingPlays = <<>> /\ ctxState # "running"

\* C21: after teardown the output device handle is no longer held (the
\* context is closed) and no node is live.
C21_HandleReleased == TornDown => (ctxState = "closed" /\ LiveNodes = {})

\* C22: after a pause at a position below duration minus epsilon the retained
\* offset stays what the pause stored, until the next command, whenever the
\* end callback of the stopped node is delivered.
C22_PauseOffsetKept ==
  [][\A n \in NodeIds :
       (/\ EndedStep(n)
        /\ nodes[n].st = "stopped"
        /\ ~isPlaying /\ sourceNodeRef = 0 /\ pendingPlays = <<>>
        /\ RLess(pauseTimeRef, RSub(Duration, Epsilon)))
       => pauseTimeRef' = pauseTimeRef]_vars

\* reset() or teardown finds no live node to stop: none referenced, or the
\* referenced node has ended or was stopped.
NothingToStop == sourceNodeRef = 0 \/ ~Live(sourceNodeRef)

\* C26 (as claimed): reset() or teardown issued when the node has ended or
\* was already stopped changes no node and leaves no node reference, offset 0
\* and isPlaying false.
C26_StopToleratedOffsetZero ==
  [][((ResetAudio \/ Unmount) /\ NothingToStop) =>
       /\ nodes' = nodes /\ pendingEnded' = pendingEnded
       /\ sourceNodeRef' = 0
       /\ ~isPlaying'
       /\ pauseTimeRef' = Zero]_vars

\* C26 (amended): both change no node and leave no node reference and
\* isPlaying false; reset() leaves the offset 0, teardown leaves the retained
\* offset as it was.
C26_StopTolerated ==
  [][/\ ((ResetAudio \/ Unmount) /\ NothingToStop) =>
          /\ nodes' = nodes /\ pendingEnded' = pendingEnded
          /\ sourceNodeRef' = 0
          /\ ~isPlaying'
     /\ (ResetAudio /\ NothingToStop) => (pauseTimeRef' = Zero /\ progress' = Zero)
     /\ (Unmount /\ NothingToStop) => pauseTimeRef' = pauseTimeRef]_vars

C26_Witness ==
  /\ last = "reset"
  /\ sourceNodeRef = 0
  /\ \E n \in NodeIds : nodes[n].st = "ended"
  /\ ~isPlaying
  /\ pauseTimeRef = Zero

\* C27: the end callback of a node stopped by pause() or reset(), delivered
\* after play() has started a new node, leaves isPlaying true and the retained
\* offset and progress unchanged.
C27_StaleEndedIgnored ==
  [][\A n \in NodeIds :
       (/\ EndedStep(n)
        /\ nodes[n].st = "stopped"
        /\ sourceNodeRef # 0 /\ sourceNodeRef # n /\ Live(sourceNodeRef)
        /\ isPlaying
        /\ Cardinality(LiveNodes) = 1)
       => (isPlaying' /\ UNCHANGED <<pauseTimeRef, progress>>)]_vars


\* A step in which the in-flight handler i, started before the shown content
\* was replaced, runs to its end.
StaleCompletes(i) ==
  /\ i \in DOMAIN tasks
  /\ tasks[i].kind \in {"process", "audio"}
  /\ tasks[i].stale
  /\ tasks' = RemoveTask(i)

\* C23: after a start over, a load of a history entry or the deletion of the
\* shown entry, a translation or audio generation that was already in flight
\* does not install its buffer: the step that ends it leaves the audio buffer
\* as it is.
C23_StaleGenerationDiscarded ==
  [][\A i \in 1..MaxTasks : StaleCompletes(i) => audioBuffer' = audioBuffer]_vars

\* A step in which handleProcess saves its new item.
SaveStep ==
  \E i \in 1..MaxTasks, b64 \in Base64Inputs :
    SpeechDone(i, b64) /\ LoadResult(b64).err = "none"

\* C24: the stored history never holds more than 20 items, and a save puts the
\* new item first, followed by the 19 most recent items stored before it, in
\* their order.
C24_SaveKeepsRecent ==
  [][/\ Len(stored') <= HistoryLimit
     /\ SaveStep => /\ stored'[1].id = nextId
                    /\ Tail(stored') = Take(stored, HistoryLimit - 1)]_vars

\* C25: selecting a file of more than 10 * 1024 * 1024 bytes only sets the
\* error message: file, status, translated text, audio buffer and current
\* history id stay as they are; a file of exactly that size is accepted, its
\* read is started and the error message cleared.
C25_TooLargeRejected ==
  [][\A d \in Docs, size \in FileSizes :
       HandleFileChange(d, size) =>
         IF size > MaxFileSize
           THEN /\ errorMsg' = TooLargeMsg
                /\ UNCHANGED <<file, status, translatedText, summary, audioBuffer,
                               currentHistoryId, history, stored, tasks>>
           ELSE /\ errorMsg' = ""
                /\ Len(tasks') = Len(tasks) + 1
                /\ tasks'[Len(tasks')].kind = "read"]_vars

C25_Witness ==
  /\ last = "fileRejected"
  /\ errorMsg = TooLargeMsg
  /\ status = "READY"
  /\ audioBuffer # 0
  /\ currentHistoryId # 0

\* C28: when handleProcess saves its new item, every other item of the saved
\* history, in memory and in localStorage, is an item of the history as it was
\* just before the save: an item deleted meanwhile stays deleted, a highlight
\* added or removed meanwhile stays added or removed.
C28_EditsSurviveSave ==
  [][SaveStep =>
       /\ \A k \in 2..Len(history') : \E j \in DOMAIN history : history'[k] = history[j]
       /\ \A k \in 2..Len(stored') : \E j \in DOMAIN stored : stored'[k] = stored[j]]_vars

\* A step in which handleProcess fails: a remote call rejects, or the audio
\* does not decode.
ProcessFailStep ==
  \E i \in 1..MaxTasks :
    \/ ProcessFails(i)
    \/ \E b64 \in Base64Inputs : SpeechDone(i, b64) /\ LoadResult(b64).err # "none"

\* A step of handleProcess before its last one.
ProcessEarlyStep ==
  \/ HandleProcess
  \/ \E i \in 1..MaxTasks, address \in BOOLEAN : TranslateDone(i, address)
  \/ \E i \in 1..MaxTasks : LocationDone(i)

\* C29: handleProcess changes the history, in memory and in localStorage, only
\* in the step where the audio has been decoded; a failing step sets the status
\* ERROR and an error message, and leaves the audio buffer and the history as
\* they are.
C29_SaveOnlyOnSuccess ==
  [][/\ ProcessEarlyStep => UNCHANGED <<history, stored, audioBuffer>>
     /\ ProcessFailStep => /\ status' = "ERROR"
                           /\ errorMsg' # ""
                           /\ UNCHANGED <<history, stored, audioBuffer>>]_vars

C29_Witness ==
  /\ last = "processFailed"
  /\ status = "ERROR"
  /\ errorMsg = "NotSupportedError"
  /\ translatedText # 0
  /\ audioBuffer = 0
  /\ history = stored

\* A step in which generateAudioOnly fails.
AudioFailStep ==
  \E i \in 1..MaxTasks :
    \/ AudioFails(i)
    \/ \E b64 \in Base64Inputs : AudioDone(i, b64) /\ LoadResult(b64).err # "none"

\* C30: a failing generateAudioOnly sets the status READY and the error
\* message, and leaves translated text, summary, current history id, history
\* and audio buffer as they are; called with an empty translated text it
\* changes nothing.
C30_AudioFailureKeepsContent ==
  [][/\ AudioFailStep => /\ status' = "READY"
                         /\ errorMsg' = AudioFailedMsg
                         /\ UNCHANGED <<translatedText, summary, currentHistoryId,
                                        history, stored, audioBuffer>>
     /\ (GenerateAudioOnly /\ translatedText = 0) => UNCHANGED <<appVars, audioBuffer>>]_vars

C30_Witness ==
  /\ last = "audioFailed"
  /\ status = "READY"
  /\ errorMsg = AudioFailedMsg
  /\ translatedText # 0
  /\ currentHistoryId # 0
  /\ audioBuffer = 0

\* generateAudioOnly has been called with an empty translated text.
C30_NoTextReached == last = "audioNoText" /\ translatedText = 0 /\ status = "READY"

====
